---- MODULE Spec2Model ----
(***************************************************************************)
(* Model of ai-bridge/app.py: the /feed handler (proxy_feed), its worker   *)
(* function (process_single_entry) and the translate-and-cache step        *)
(* (get_ai_processing) over a Redis cache with expiring keys.              *)
(*                                                                         *)
(* Python strings are sequences of symbols.  A symbol is one character, or *)
(* a literal of the program that never takes part in splitting, stripping  *)
(* or slicing and is kept as one symbol.                                   *)
(***************************************************************************)
EXTENDS Integers, Sequences, FiniteSets, TLC

VARIABLES
    cache,              \* the module's cache: TRUE the client, FALSE None
    store,              \* what the cache server holds under each key
    now,                \* the seconds since the process started
    request,            \* how many requests the /feed handler has taken
    feed,               \* the entries of the request being handled
    tasks,              \* index -> the future submitted for that entry
    dispatcher,         \* where proxy_feed stands in the request
    processed_results,  \* the list of proxy_feed
    callLog,            \* history: key -> how the service calls for it went
    succeeded,          \* history: entry -> its last stored successful call
    rt                  \* one function of get_ai_processing run on its own:
                        \* its arguments, its position, its result

vars == <<cache, store, now, request, feed, tasks, dispatcher,
          processed_results, callLog, succeeded, rt>>

(***************************************************************************)
(* Program constants                                                       *)
(***************************************************************************)
MaxWorkers == 5
TTL == 604800
FingerprintLen == 200

(***************************************************************************)
(* Bounds of the model                                                     *)
(***************************************************************************)
MaxRequests == 2
MaxTicks == 1
PoolEntries == 6
MaxLen == 3

(***************************************************************************)
(* Strings                                                                 *)
(***************************************************************************)
Separator == <<"|", "|", "|">>
\* the backquote character, written as a symbol
Bq == "bq"
FenceHtml == <<Bq, Bq, Bq, "h", "t", "m", "l">>
Fence == <<Bq, Bq, Bq>>
Whitespace == {" ", "\n"}

Min(a, b) == IF a < b THEN a ELSE b

\* s[:n]
Prefix(s, n) == SubSeq(s, 1, Min(n, Len(s)))

\* s[n:] with n counted from 0
Suffix(s, n) == SubSeq(s, n + 1, Len(s))

\* str.find: position (from 1) of the leftmost occurrence of p in s, 0 if none
Find(s, p) ==
    LET hits == {i \in 1..(Len(s) - Len(p) + 1) : SubSeq(s, i, i + Len(p) - 1) = p}
    IN  IF hits = {} THEN 0 ELSE CHOOSE i \in hits : \A j \in hits : i <= j

\* str.split(sep) with a non-empty separator: leftmost, non-overlapping
RECURSIVE Split(_, _)
Split(s, sep) ==
    LET i == Find(s, sep)
    IN  IF i = 0 THEN <<s>>
        ELSE <<SubSeq(s, 1, i - 1)>> \o Split(Suffix(s, i - 1 + Len(sep)), sep)

\* str.replace(p, ""): leftmost, non-overlapping, one pass
RECURSIVE Remove(_, _)
Remove(s, p) ==
    LET i == Find(s, p)
    IN  IF i = 0 THEN s
        ELSE SubSeq(s, 1, i - 1) \o Remove(Suffix(s, i - 1 + Len(p)), p)

RECURSIVE LStrip(_)
LStrip(s) == IF s # <<>> /\ Head(s) \in Whitespace THEN LStrip(Tail(s)) ELSE s

RECURSIVE RStrip(_)
RStrip(s) ==
    IF s # <<>> /\ s[Len(s)] \in Whitespace THEN RStrip(SubSeq(s, 1, Len(s) - 1)) ELSE s

\* str.strip()
Strip(s) == LStrip(RStrip(s))

\* p occurs in s
Contains(s, p) == Find(s, p) # 0

(***************************************************************************)
(* Feed entries (feedparser dicts).  A key the dict lacks is Missing.      *)
(***************************************************************************)
Missing == <<"<missing>">>

\* ch * n
Rep(ch, n) == [i \in 1..n |-> ch]

EntryPool ==
    [EA |-> [title |-> <<"a">>, link |-> <<"l", "a">>,
             description |-> <<"x">>, summary |-> Missing, id |-> <<"i", "a">>],
     EB |-> [title |-> <<"b">>, link |-> <<"l", "b">>,
             description |-> <<>>, summary |-> <<"y", "|", "|", "|", "z">>,
             id |-> Missing],
     EC |-> [title |-> <<"c">>, link |-> <<"l", "c">>,
             description |-> Rep("x", FingerprintLen) \o <<"1">>,
             summary |-> Missing, id |-> <<"i", "c">>],
     ED |-> [title |-> <<"c">>, link |-> <<"l", "d">>,
             description |-> Rep("x", FingerprintLen) \o <<"2">>,
             summary |-> Missing, id |-> <<"i", "d">>]]

EntryNames == DOMAIN EntryPool

\* the feeds feedparser.parse may hand back, as sequences of entry names
Feeds == {<<>>, <<"EA", "EB">>, <<"EC", "ED">>}

\* the feed of the worker-pool specification: more entries than workers
PoolFeed == [i \in 1..PoolEntries |-> "EA"]

\* dict.get(key, default)
DictGet(v, default) == IF v = Missing THEN default ELSE v

\* a or b or ""  (a missing key reads as None)
FirstTruthy(a, b) ==
    IF a # Missing /\ a # <<>> THEN a
    ELSE IF b # Missing /\ b # <<>> THEN b
    ELSE <<>>

\* process_single_entry: the three locals read from the entry
EntryTitle(e) == DictGet(e.title, <<"NoTitle">>)
EntryLink(e) == DictGet(e.link, <<>>)
RawContent(e) == FirstTruthy(e.description, e.summary)

(***************************************************************************)
(* The cache: keys, values, expiry                                         *)
(***************************************************************************)
\* hashlib.md5(...).hexdigest(), taken as collision-free: a digest is
\* represented by the string it digests
Md5(s) == s

\* content_hash and cache_key of get_ai_processing
ContentHash(title, content) == Md5(title \o Prefix(content, FingerprintLen))
CacheKey(title, content) ==
    [prefix |-> "ai_result_v17_aliyun:", digest |-> ContentHash(title, content)]

KeyOf(name) == CacheKey(EntryTitle(EntryPool[name]), RawContent(EntryPool[name]))

RtKey == [prefix |-> "ai_result_v17_aliyun:", digest |-> <<"r", "t">>]
Keys == {KeyOf(n) : n \in EntryNames} \cup {RtKey}

\* the value a cache.get returns: <<>> is None, <<v>> is the string v
None == <<>>
Some(v) == <<v>>

\* GET of the cache server: a key past its expiry is gone
CacheGet(k) ==
    IF store[k] # <<>> /\ now < store[k][1].exp THEN Some(store[k][1].val) ELSE None

\* mutant: SET with NX, the first writer of a live key wins
CacheSetNx(k, ttl, v) ==
    IF store[k] # <<>> /\ now < store[k][1].exp
    THEN store
    ELSE [store EXCEPT ![k] = <<[val |-> v, exp |-> now + ttl]>>]

\* SETEX of the cache server
CacheSetex(k, ttl, v) ==
    [store EXCEPT ![k] = <<[val |-> v, exp |-> now + ttl]>>]

\* f"{cn_title}|||{cn_content}"
Composite(cn_title, cn_content) == cn_title \o Separator \o cn_content

\* mutant: the two parts of the cached value taken in the wrong order
ParseCachedSwapped(cached) ==
    IF cached # None /\ cached[1] # <<>>
    THEN LET parts == Split(cached[1], Separator)
         IN  IF Len(parts) = 2 THEN <<parts[2], parts[1]>> ELSE <<>>
    ELSE <<>>

\* mutant: len(parts) >= 2 in place of len(parts) == 2
ParseCachedLoose(cached) ==
    IF cached # None /\ cached[1] # <<>>
    THEN LET parts == Split(cached[1], Separator)
         IN  IF Len(parts) >= 2 THEN <<parts[1], parts[2]>> ELSE <<>>
    ELSE <<>>

\* lines 48-54: the pair a cached value is served as, <<>> when it is not served
ParseCached(cached) ==
    IF cached # None /\ cached[1] # <<>>
    THEN LET parts == Split(cached[1], Separator)
         IN  IF Len(parts) = 2 THEN <<parts[1], parts[2]>> ELSE <<>>
    ELSE <<>>

(***************************************************************************)
(* get_ai_processing: the external service and what is made of its answer  *)
(***************************************************************************)
\* the answers client.chat.completions.create may give (message.content)
Responses ==
    {<<"T", "|", "|", "|", "C">>,
     <<"T">>,
     <<Bq, Bq, Bq, "h", "t", "m", "l", "\n", "T", " ", "|", "|", "|", " ", "C",
       Bq, Bq, Bq>>,
     <<"x", "|", "|", " ", "|", "|", "|", "|", "y">>}

\* str(e) of what the try block may raise: the missing key, a failed request
ServiceErrors == {<<"ALIYUN_API_KEY unset">>, <<"Request timed out.">>}

\* lines 92-99: <<cn_title, cn_content>> made of the service's answer
Cleaned(r) == Remove(Remove(Strip(r), FenceHtml), Fence)

CnPair(title, content, r) ==
    LET parts == Split(Cleaned(r), Separator)
    IN  <<IF Len(parts) > 0 THEN Strip(parts[1]) ELSE title,
          IF Len(parts) > 1 THEN Strip(parts[2]) ELSE content>>

\* line 42: what get_ai_processing returns when cache is None
NoCacheReturn(title, content) == <<title, <<"Redis Error (No Cache)">>, content>>

\* lines 107-111: what get_ai_processing returns from its except branch
ErrorMarker == <<"AI service error">>
ErrorDetail(err, content) ==
    <<"error detail: ">> \o err \o <<"<br><br>original content:<br>">> \o content
ErrorReturn(title, content, err) == <<title, ErrorMarker, ErrorDetail(err, content)>>

(***************************************************************************)
(* process_single_entry                                                    *)
(***************************************************************************)
\* line 157: cn_title, cn_content = get_ai_processing(...) raises ValueError
\* unless exactly two values come back
Unpacks(ret) == Len(ret) = 2

\* mutant: entry.get("id") with no fallback to the link
ResultDictNoFallback(index, e, ret) ==
    [index |-> index, cn_title |-> ret[1], link |-> EntryLink(e),
     cn_content |-> ret[2], id |-> DictGet(e.id, <<>>)]

\* lines 162-168
ResultDict(index, e, ret) ==
    [index |-> index, cn_title |-> ret[1], link |-> EntryLink(e),
     cn_content |-> ret[2], id |-> DictGet(e.id, EntryLink(e))]

\* a task as submitted: the future and the locals of its worker function
NewTask ==
    [state |-> "Unsubmitted", pc |-> "idle", cached |-> None, svc |-> "none",
     cn |-> <<>>, ret |-> <<>>, result |-> <<>>, collected |-> FALSE]

\* the worker function returns from get_ai_processing with ret: the future
\* is finished, with the dict as its result or with the exception
Finish(t, index, e, ret) ==
    IF Unpacks(ret)
    THEN [t EXCEPT !.state = "Completed", !.pc = "done", !.ret = ret,
                   !.result = <<ResultDict(index, e, ret)>>]
    ELSE [t EXCEPT !.state = "Failed", !.pc = "done", !.ret = ret]

(***************************************************************************)
(* State                                                                   *)
(***************************************************************************)
Indices == IF feed = <<>> THEN {} ELSE 0..(Len(feed) - 1)
Entry(i) == EntryPool[feed[i + 1]]
Title(i) == EntryTitle(Entry(i))
Content(i) == RawContent(Entry(i))
Key(i) == CacheKey(Title(i), Content(i))

Running == {i \in Indices : tasks[i].state = "Running"}
Finished == {i \in Indices : tasks[i].state \in {"Completed", "Failed"}}

\* mutant: a thread per work item, whatever max_workers says
WorkerAlwaysAvailable == TRUE

\* mutant: a thread that ran a work item is not taken for a second one
WorkerNeverReused == Cardinality(Running \cup Finished) < MaxWorkers

\* ThreadPoolExecutor(max_workers=5): a work item is taken by a worker thread
\* that is free or can still be created
WorkerAvailable == Cardinality(Running) < MaxWorkers

\* values found in the cache when the process starts
Preloads ==
    {<<>>, <<"P">>, <<"P", "|", "|", "|", "Q">>,
     <<"P", "|", "|", "|", "Q", "|", "|", "|", "R">>}

\* they were stored before the process started: less than TTL is left
PreloadExpiry == TTL - 1

EmptyStore == [k \in Keys |-> <<>>]
NeverSucceeded == [at |-> 0 - TTL, req |-> 0]
IdleRt == [pc |-> "off", t |-> <<>>, c |-> <<>>, out |-> <<>>]

InitCommon ==
    /\ now = 0
    /\ request = 0
    /\ feed = <<>>
    /\ tasks = <<>>
    /\ dispatcher = "Idle"
    /\ processed_results = <<>>
    /\ callLog = [k \in Keys |-> "none"]
    /\ succeeded = [n \in EntryNames |-> NeverSucceeded]

\* lines 27-33: cache is the client, or None when the ping failed
Init ==
    /\ InitCommon
    /\ \/ cache = FALSE /\ store = EmptyStore
       \/ cache = TRUE /\ store = EmptyStore
       \/ /\ cache = TRUE
          /\ \E v \in Preloads :
               store = [EmptyStore EXCEPT
                          ![KeyOf("EA")] = <<[val |-> v, exp |-> PreloadExpiry]>>]
    /\ rt = IdleRt

(***************************************************************************)
(* proxy_feed: one request                                                 *)
(***************************************************************************)
\* lines 192-207: the feed is fetched; with no entries the empty document is
\* answered at once, else the tasks are numbered
NewRequest(f) ==
    /\ dispatcher \in {"Idle", "Done"}
    /\ request < MaxRequests
    /\ request' = request + 1
    /\ feed' = f
    /\ tasks' = IF f = <<>> THEN <<>> ELSE [i \in 0..(Len(f) - 1) |-> NewTask]
    /\ processed_results' = <<>>
    /\ dispatcher' = IF f = <<>> THEN "Done" ELSE "Dispatching"
    /\ UNCHANGED <<cache, store, now, callLog, succeeded, rt>>

\* lines 212-214: executor.submit, in the order of the entries
Submit(i) ==
    /\ dispatcher = "Dispatching"
    /\ tasks[i].state = "Unsubmitted"
    /\ \A j \in Indices : j < i => tasks[j].state # "Unsubmitted"
    /\ tasks' = [tasks EXCEPT ![i].state = "Submitted"]
    /\ dispatcher' = IF i = Len(feed) - 1 THEN "AwaitingAll" ELSE "Dispatching"
    /\ UNCHANGED <<cache, store, now, request, feed, processed_results, callLog, succeeded, rt>>

\* a worker thread takes the oldest work item off the executor's queue
Start(i) ==
    /\ tasks[i].state = "Submitted"
    /\ \A j \in Indices : j < i => tasks[j].state # "Submitted"
    /\ WorkerAvailable
    /\ tasks' = [tasks EXCEPT ![i].state = "Running", ![i].pc = "get"]
    /\ UNCHANGED <<cache, store, now, request, feed, dispatcher, processed_results,
                   callLog, succeeded, rt>>

\* lines 41-42 and 157: without a cache three values come back
NoCache(i) ==
    /\ tasks[i].state = "Running" /\ tasks[i].pc = "get"
    /\ ~cache
    /\ tasks' = [tasks EXCEPT
                   ![i] = Finish(@, i, Entry(i), NoCacheReturn(Title(i), Content(i)))]
    /\ UNCHANGED <<cache, store, now, request, feed, dispatcher, processed_results,
                   callLog, succeeded, rt>>

\* mutant: a hit stores the value again, with a new expiry
LookupRefreshing(i) ==
    /\ tasks[i].state = "Running" /\ tasks[i].pc = "get"
    /\ cache
    /\ LET cached == CacheGet(Key(i))
           hit == ParseCached(cached)
       IN  /\ tasks' = [tasks EXCEPT ![i] =
                  IF hit # <<>>
                  THEN Finish([@ EXCEPT !.cached = cached], i, Entry(i), hit)
                  ELSE [@ EXCEPT !.cached = cached, !.pc = "call", !.svc = "pending"]]
           /\ store' = IF hit # <<>> THEN CacheSetex(Key(i), TTL, cached[1]) ELSE store
    /\ UNCHANGED <<cache, now, request, feed, dispatcher, processed_results,
                   callLog, succeeded, rt>>

\* lines 47-54: cache.get, then the cached pair is returned or the call prepared
Lookup(i) ==
    /\ tasks[i].state = "Running" /\ tasks[i].pc = "get"
    /\ cache
    /\ LET cached == CacheGet(Key(i))
           hit == ParseCached(cached)
       IN  tasks' = [tasks EXCEPT ![i] =
                IF hit # <<>>
                THEN Finish([@ EXCEPT !.cached = cached], i, Entry(i), hit)
                ELSE [@ EXCEPT !.cached = cached, !.pc = "call", !.svc = "pending"]]
    /\ UNCHANGED <<cache, store, now, request, feed, dispatcher, processed_results,
                   callLog, succeeded, rt>>

\* lines 83-99: the service answers r
ServiceReturn(i, r) ==
    /\ tasks[i].state = "Running" /\ tasks[i].pc = "call"
    /\ tasks' = [tasks EXCEPT ![i].pc = "setex", ![i].svc = "ok",
                              ![i].cn = CnPair(Title(i), Content(i), r)]
    /\ UNCHANGED <<cache, store, now, request, feed, dispatcher, processed_results,
                   callLog, succeeded, rt>>

\* mutant: the except branch stores what it returns
ServiceFailCaching(i, err) ==
    /\ tasks[i].state = "Running" /\ tasks[i].pc = "call"
    /\ tasks' = [tasks EXCEPT
                   ![i] = Finish([@ EXCEPT !.svc = "err"], i, Entry(i),
                                 ErrorReturn(Title(i), Content(i), err))]
    /\ store' = CacheSetex(Key(i), TTL,
                           Composite(Title(i), ErrorDetail(err, Content(i))))
    /\ callLog' = [callLog EXCEPT ![Key(i)] = IF @ = "ok" THEN "ok" ELSE "failed"]
    /\ UNCHANGED <<cache, now, request, feed, dispatcher, processed_results,
                   succeeded, rt>>

\* lines 77-91 raise, lines 105-111 and 157: three values come back
ServiceFail(i, err) ==
    /\ tasks[i].state = "Running" /\ tasks[i].pc = "call"
    /\ tasks' = [tasks EXCEPT
                   ![i] = Finish([@ EXCEPT !.svc = "err"], i, Entry(i),
                                 ErrorReturn(Title(i), Content(i), err))]
    /\ callLog' = [callLog EXCEPT ![Key(i)] = IF @ = "ok" THEN "ok" ELSE "failed"]
    /\ UNCHANGED <<cache, store, now, request, feed, dispatcher, processed_results,
                   succeeded, rt>>

\* lines 102-103: cache.setex, then the pair is returned
Setex(i) ==
    /\ tasks[i].state = "Running" /\ tasks[i].pc = "setex"
    /\ store' = CacheSetex(Key(i), TTL, Composite(tasks[i].cn[1], tasks[i].cn[2]))
    /\ tasks' = [tasks EXCEPT ![i] = Finish(@, i, Entry(i), tasks[i].cn)]
    /\ callLog' = [callLog EXCEPT ![Key(i)] = "ok"]
    /\ succeeded' = [succeeded EXCEPT ![feed[i + 1]] = [at |-> now, req |-> request]]
    /\ UNCHANGED <<cache, now, request, feed, dispatcher, processed_results, rt>>

\* mutant: a raising future empties the list collected so far
CollectedLosing(results, t) ==
    IF t.state = "Completed" THEN Append(results, t.result[1]) ELSE <<>>

\* lines 217-221: future.result() is appended, or raises and is printed
Collected(results, t) ==
    IF t.state = "Completed" THEN Append(results, t.result[1]) ELSE results

\* lines 216-221: as_completed yields a finished future; its result is
\* appended, its exception is printed
Collect(i) ==
    /\ dispatcher = "AwaitingAll"
    /\ i \in Finished
    /\ ~tasks[i].collected
    /\ tasks' = [tasks EXCEPT ![i].collected = TRUE]
    /\ processed_results' = Collected(processed_results, tasks[i])
    /\ UNCHANGED <<cache, store, now, request, feed, dispatcher, callLog, succeeded, rt>>

\* insertion sort by x["index"]: list.sort(key=...) is stable
RECURSIVE SortByIndex(_)
Insert(x, sorted) ==
    LET before == SelectSeq(sorted, LAMBDA y : y.index <= x.index)
        after == SelectSeq(sorted, LAMBDA y : y.index > x.index)
    IN  before \o <<x>> \o after
SortByIndex(rs) ==
    IF rs = <<>> THEN <<>>
    ELSE Insert(rs[Len(rs)], SortByIndex(SubSeq(rs, 1, Len(rs) - 1)))

\* mutant: the sort of line 224 left out
Unsorted(rs) == rs

\* line 224: processed_results.sort(key=lambda x: x["index"])
Sorted(rs) == SortByIndex(rs)

\* mutant: the sort does not wait for the futures still out
ReorderEarly ==
    /\ dispatcher = "AwaitingAll"
    /\ processed_results' = Sorted(processed_results)
    /\ dispatcher' = "Reordered"
    /\ UNCHANGED <<cache, store, now, request, feed, tasks, callLog, succeeded, rt>>

\* line 224, after the loop and the executor's shutdown
Reorder ==
    /\ dispatcher = "AwaitingAll"
    /\ \A i \in Indices : tasks[i].collected
    /\ processed_results' = Sorted(processed_results)
    /\ dispatcher' = "Reordered"
    /\ UNCHANGED <<cache, store, now, request, feed, tasks, callLog, succeeded, rt>>

\* line 227: the results are handed to generate_xml
Return ==
    /\ dispatcher = "Reordered"
    /\ dispatcher' = "Done"
    /\ UNCHANGED <<cache, store, now, request, feed, tasks, processed_results,
                   callLog, succeeded, rt>>

\* TTL seconds pass; the cache server drops the keys that expired
TickSeconds == TTL
Tick ==
    /\ now < MaxTicks * TickSeconds
    /\ now' = now + TickSeconds
    /\ store' = [k \in Keys |->
                   IF store[k] # <<>> /\ store[k][1].exp <= now + TickSeconds
                   THEN <<>> ELSE store[k]]
    /\ succeeded' = [n \in EntryNames |->
                       IF succeeded[n].at + TTL <= now + TickSeconds
                       THEN NeverSucceeded ELSE succeeded[n]]
    /\ UNCHANGED <<cache, request, feed, tasks, dispatcher, processed_results,
                   callLog, rt>>

Next ==
    \/ \E f \in Feeds : NewRequest(f)
    \/ \E i \in Indices : Submit(i)
    \/ \E i \in Indices : Start(i)
    \/ \E i \in Indices : NoCache(i)
    \/ \E i \in Indices : Lookup(i)
    \/ \E i \in Indices, r \in Responses : ServiceReturn(i, r)
    \/ \E i \in Indices, err \in ServiceErrors : ServiceFail(i, err)
    \/ \E i \in Indices : Setex(i)
    \/ \E i \in Indices : Collect(i)
    \/ Reorder
    \/ Return
    \/ Tick

Spec == Init /\ [][Next]_vars

(***************************************************************************)
(* The worker pool under load: one feed with more entries than workers     *)
(***************************************************************************)
\* the request is under way: lines 192-207 have run on PoolFeed
InitPool ==
    /\ now = 0
    /\ request = 1
    /\ feed = PoolFeed
    /\ tasks = [i \in 0..(Len(PoolFeed) - 1) |-> NewTask]
    /\ dispatcher = "Dispatching"
    /\ processed_results = <<>>
    /\ callLog = [k \in Keys |-> "none"]
    /\ succeeded = [n \in EntryNames |-> NeverSucceeded]
    /\ cache \in BOOLEAN
    /\ store = EmptyStore
    /\ rt = IdleRt

\* the service is failing throughout: every request to it times out
PoolErrors == {<<"Request timed out.">>}

NextPool ==
    \/ \E i \in Indices : Submit(i)
    \/ \E i \in Indices : Start(i)
    \/ \E i \in Indices : NoCache(i)
    \/ \E i \in Indices : Lookup(i)
    \/ \E i \in Indices, err \in PoolErrors : ServiceFail(i, err)
    \/ \E i \in Indices : Collect(i)
    \/ Reorder
    \/ Return

SpecPool == InitPool /\ [][NextPool]_vars

\* the threads are scheduled, the cache and the service answer or time out:
\* a step that can be taken is taken in the end
SpecPoolFair == InitPool /\ [][NextPool]_vars /\ WF_vars(NextPool)

(***************************************************************************)
(* One request on a feed of three entries                                  *)
(***************************************************************************)
BatchFeed == <<"EA", "EB", "EC">>

InitBatch ==
    /\ now = 0
    /\ request = 1
    /\ feed = BatchFeed
    /\ tasks = [i \in 0..(Len(BatchFeed) - 1) |-> NewTask]
    /\ dispatcher = "Dispatching"
    /\ processed_results = <<>>
    /\ callLog = [k \in Keys |-> "none"]
    /\ succeeded = [n \in EntryNames |-> NeverSucceeded]
    /\ \/ cache = FALSE /\ store = EmptyStore
       \/ cache = TRUE /\ store = EmptyStore
       \/ /\ cache = TRUE
          /\ \E v \in Preloads :
               store = [EmptyStore EXCEPT
                          ![KeyOf("EA")] = <<[val |-> v, exp |-> PreloadExpiry]>>]
    /\ rt = IdleRt

NextBatch ==
    \/ \E i \in Indices : Submit(i)
    \/ \E i \in Indices : Start(i)
    \/ \E i \in Indices : NoCache(i)
    \/ \E i \in Indices : Lookup(i)
    \/ \E i \in Indices, r \in Responses : ServiceReturn(i, r)
    \/ \E i \in Indices, err \in ServiceErrors : ServiceFail(i, err)
    \/ \E i \in Indices : Setex(i)
    \/ \E i \in Indices : Collect(i)
    \/ Reorder
    \/ Return

SpecBatch == InitBatch /\ [][NextBatch]_vars

(***************************************************************************)
(* A composite stored and read back                                        *)
(***************************************************************************)
Alphabet == {"a", "|"}

RECURSIVE StringsOfLen(_)
StringsOfLen(n) ==
    IF n = 0 THEN {<<>>}
    ELSE {<<ch>> \o w : ch \in Alphabet, w \in StringsOfLen(n - 1)}

Strings == UNION {StringsOfLen(n) : n \in 0..MaxLen}

InitRoundTrip ==
    /\ InitCommon
    /\ cache = TRUE
    /\ store = EmptyStore
    /\ \E t \in Strings, c \in Strings :
         rt = [pc |-> "setex", t |-> t, c |-> c, out |-> <<>>]

\* line 102 on the pair (t, c)
RtSetex ==
    /\ rt.pc = "setex"
    /\ store' = CacheSetex(RtKey, TTL, Composite(rt.t, rt.c))
    /\ rt' = [rt EXCEPT !.pc = "get"]
    /\ UNCHANGED <<cache, now, request, feed, tasks, dispatcher, processed_results,
                   callLog, succeeded>>

\* lines 47-54 on the key just written
RtGet ==
    /\ rt.pc = "get"
    /\ rt' = [rt EXCEPT !.pc = "done", !.out = ParseCached(CacheGet(RtKey))]
    /\ UNCHANGED <<cache, store, now, request, feed, tasks, dispatcher,
                   processed_results, callLog, succeeded>>

NextRoundTrip == RtSetex \/ RtGet

SpecRoundTrip == InitRoundTrip /\ [][NextRoundTrip]_vars

(***************************************************************************)
(* The cache key of two entries                                            *)
(***************************************************************************)
FpTitles == {<<"a">>, <<"a", "b">>, <<"c">>}
FpContents ==
    {<<>>, <<"c">>, <<"b", "c">>,
     Rep("x", FingerprintLen),
     Rep("x", FingerprintLen) \o <<"1">>,
     Rep("x", FingerprintLen) \o <<"2">>}

InitFingerprint ==
    /\ InitCommon
    /\ cache = TRUE
    /\ store = EmptyStore
    /\ \E t1 \in FpTitles, c1 \in FpContents, t2 \in FpTitles, c2 \in FpContents :
         rt = [pc |-> "key", t |-> t1, c |-> c1, t2 |-> t2, c2 |-> c2, out |-> <<>>]

\* lines 44-45 on each of the two entries
FpKeys ==
    /\ rt.pc = "key"
    /\ rt' = [rt EXCEPT !.pc = "done",
                        !.out = <<CacheKey(rt.t, rt.c), CacheKey(rt.t2, rt.c2)>>]
    /\ UNCHANGED <<cache, store, now, request, feed, tasks, dispatcher,
                   processed_results, callLog, succeeded>>

NextFingerprint == FpKeys

SpecFingerprint == InitFingerprint /\ [][NextFingerprint]_vars

(***************************************************************************)
(* The pair made of one answer of the service                              *)
(***************************************************************************)
AnswerTitles == {<<"a">>, <<"b">>}
AnswerContents == {<<"x">>, <<"y", "|", "|", "|", "z">>}
Answers == Responses \cup Strings \cup {<<" ", "T", " ">>, <<"T", "|", "|", "|", " ", "C", "\n">>}

InitAnswer ==
    /\ InitCommon
    /\ cache = TRUE
    /\ store = EmptyStore
    /\ \E t \in AnswerTitles, c \in AnswerContents, r \in Answers :
         rt = [pc |-> "answer", t |-> t, c |-> c, r |-> r, out |-> <<>>]

\* lines 92-99 on the answer r
AnswerPair ==
    /\ rt.pc = "answer"
    /\ rt' = [rt EXCEPT !.pc = "done", !.out = CnPair(rt.t, rt.c, rt.r)]
    /\ UNCHANGED <<cache, store, now, request, feed, tasks, dispatcher,
                   processed_results, callLog, succeeded>>

NextAnswer == AnswerPair

SpecAnswer == InitAnswer /\ [][NextAnswer]_vars

(***************************************************************************)
(* The claims                                                              *)
(***************************************************************************)
ResultsAt(i) == {n \in 1..Len(processed_results) : processed_results[n].index = i}

\* the cached value splits on the separator into exactly two parts
TwoParts(cached) == cached # None /\ Len(Split(cached[1], Separator)) = 2

\* C1: the list handed to generate_xml is sorted by strictly ascending index
\* and is no longer than the feed, whatever the order in which the futures
\* finished and were collected, and whichever of them raised.
C1_OrderedOutput ==
    dispatcher \in {"Reordered", "Done"} =>
        /\ Len(processed_results) <= Len(feed)
        /\ \A a, b \in 1..Len(processed_results) :
               a < b => processed_results[a].index < processed_results[b].index

C1_Witness ==
    /\ dispatcher = "Done"
    /\ Len(processed_results) = 2
    /\ \E i \in Indices : tasks[i].state = "Failed"

\* C2: when the request is answered, every entry whose task raised has no
\* result in the list and every entry whose task returned has exactly one,
\* the dict its task returned; and once every task has finished, raised or
\* not, the dispatcher can go on to collect or to sort.
C2_OnlyRaisingTasksMissing ==
    /\ dispatcher = "Done" =>
          \A i \in Indices :
              /\ tasks[i].state \in {"Completed", "Failed"}
              /\ tasks[i].state = "Failed" => ResultsAt(i) = {}
              /\ tasks[i].state = "Completed" =>
                     /\ Cardinality(ResultsAt(i)) = 1
                     /\ \A n \in ResultsAt(i) :
                            processed_results[n] = tasks[i].result[1]
    /\ (dispatcher = "AwaitingAll" /\ Finished = Indices) =>
          ENABLED (Reorder \/ \E i \in Indices : Collect(i))

C2_Witness ==
    /\ dispatcher = "Done"
    /\ \E i, j \in Indices : /\ i < j
                             /\ tasks[i].state = "Failed"
                             /\ tasks[j].state = "Completed"

\* C3: an entry whose service call failed has a result at its index, with the
\* entry's own title and with the error marker and the raw content in its
\* content.
C3_FailedCallKeepsEntry ==
    dispatcher = "Done" =>
        \A i \in Indices :
            tasks[i].svc = "err" =>
                \E n \in ResultsAt(i) :
                    /\ processed_results[n].cn_title = Title(i)
                    /\ Contains(processed_results[n].cn_content, ErrorMarker)
                    /\ Contains(processed_results[n].cn_content, Content(i))

\* C4: with the cache unreachable at startup every entry is a miss: the
\* service is called for it, nothing is written to the cache, and its result
\* is in the output.
C4_DegradedCacheStillServes ==
    (dispatcher = "Done" /\ ~cache) =>
        /\ store = EmptyStore
        /\ \A i \in Indices : tasks[i].svc # "none" /\ ResultsAt(i) # {}

\* C5: a task that read from the cache a value of exactly two parts did not
\* call the service and returned those two parts as title and content.
C5_CacheHitServed ==
    \A i \in Indices :
        TwoParts(tasks[i].cached) =>
            LET parts == Split(tasks[i].cached[1], Separator)
            IN  /\ tasks[i].svc = "none"
                /\ tasks[i].state = "Completed"
                /\ tasks[i].result[1].cn_title = parts[1]
                /\ tasks[i].result[1].cn_content = parts[2]

C5_Witness ==
    \E i \in Indices :
        /\ TwoParts(tasks[i].cached)
        /\ tasks[i].collected
        /\ dispatcher = "Done"

\* C6: once a request has stored an entry's successful call, a later request
\* that looks the same entry up before the TTL has run out does not call the
\* service.
C6_LaterRequestServedFromCache ==
    [][request' = request =>
         \A i \in Indices :
             (/\ tasks[i].pc = "get"
              /\ tasks'[i].pc # "get"
              /\ succeeded[feed[i + 1]].req > 0
              /\ succeeded[feed[i + 1]].req < request
              /\ now < succeeded[feed[i + 1]].at + TTL)
             => tasks'[i].svc = "none"]_vars

\* C7: a step in which a service call fails leaves the cache as it was, and
\* while the calls made for a key have only failed, a lookup of that key goes
\* on to call the service.
C7_FailedCallNotCached ==
    [][request' = request =>
         \A i \in Indices :
             /\ (tasks[i].pc = "call" /\ tasks'[i].svc = "err") => store' = store
             /\ (/\ tasks[i].pc = "get"
                 /\ tasks'[i].pc # "get"
                 /\ callLog[Key(i)] = "failed")
                => (tasks'[i].pc = "call" /\ tasks'[i].svc = "pending")]_vars

C7_Witness ==
    /\ request = 2
    /\ feed = <<"EA", "EB">>
    /\ callLog[KeyOf("EA")] = "failed"
    /\ tasks[0].pc = "call"

\* C8: a task that read from the cache a value not of exactly two parts goes
\* on as after a miss: it calls the service, and it returns what the answer
\* gives or fails as the call fails, the lookup itself raising nothing.
C8_MalformedIsMiss ==
    \A i \in Indices :
        (tasks[i].cached # None /\ ~TwoParts(tasks[i].cached)) =>
            \/ /\ tasks[i].state = "Running" /\ tasks[i].pc = "call"
               /\ tasks[i].svc = "pending"
            \/ /\ tasks[i].state = "Running" /\ tasks[i].pc = "setex"
               /\ tasks[i].svc = "ok"
               /\ \E r \in Responses : tasks[i].cn = CnPair(Title(i), Content(i), r)
            \/ /\ tasks[i].state = "Completed" /\ tasks[i].svc = "ok"
               /\ \E r \in Responses : tasks[i].ret = CnPair(Title(i), Content(i), r)
            \/ /\ tasks[i].state = "Failed" /\ tasks[i].svc = "err"

C8_Witness ==
    \E i \in Indices :
        /\ tasks[i].cached # None
        /\ Len(Split(tasks[i].cached[1], Separator)) = 3
        /\ tasks[i].state = "Completed"
        /\ tasks[i].svc = "ok"

\* C9: the composite of (t, c), stored and read back, parses to (t, c).
C9_RoundTrip ==
    rt.pc = "done" => rt.out = <<rt.t, rt.c>>

\* C10: at most max_workers tasks of a request are running at any time.
C10_AtMostFiveRunning ==
    Cardinality(Running) <= MaxWorkers

C10_Witness ==
    /\ Cardinality(Running) = MaxWorkers
    /\ \E i \in Indices : tasks[i].state = "Submitted"
    /\ \E i \in Indices : tasks[i].pc = "call"
    /\ \E i \in Indices : tasks[i].pc = "get"

\* C11: two entries get the same cache key exactly when they have the same
\* title and the same first FingerprintLen characters of content.
C11_KeyOfPair ==
    rt.pc = "done" =>
        ((rt.out[1] = rt.out[2]) <=>
         (rt.t = rt.t2 /\ Prefix(rt.c, FingerprintLen) = Prefix(rt.c2, FingerprintLen)))

\* C12: of a successful call, an answer without the separator (fences
\* removed) gives the entry's own title and the whole answer as content; an
\* answer with it gives its first and second segments, trimmed.
C12_AnswerShape ==
    rt.pc = "done" =>
        LET parts == Split(Cleaned(rt.r), Separator)
        IN  IF Len(parts) = 1
            THEN rt.out = <<rt.t, Cleaned(rt.r)>>
            ELSE rt.out = <<Strip(parts[1]), Strip(parts[2])>>

\* C13: whenever get_ai_processing has returned, it has returned exactly two
\* values, and after a failed call they are the entry's title and a content
\* holding the error marker, the error detail and the raw content.
C13_AlwaysAPair ==
    \A i \in Indices :
        tasks[i].pc = "done" =>
            /\ Len(tasks[i].ret) = 2
            /\ tasks[i].svc = "err" =>
                   /\ tasks[i].ret[1] = Title(i)
                   /\ Contains(tasks[i].ret[2], ErrorMarker)
                   /\ Contains(tasks[i].ret[2], Content(i))

TaskMoves ==
    {<<"Unsubmitted", "Submitted">>, <<"Submitted", "Running">>,
     <<"Running", "Completed">>, <<"Running", "Failed">>}

DispatcherMoves ==
    {<<"Dispatching", "AwaitingAll">>, <<"AwaitingAll", "Reordered">>,
     <<"Reordered", "Done">>}

\* C14: the dispatcher is never Reordered or Done while a task of the request
\* has not finished; a task only moves Submitted -> Running -> Completed or
\* Failed (after its submission), the dispatcher only Dispatching ->
\* AwaitingAll -> Reordered -> Done.
C14_SortAfterAllTasks ==
    /\ [](dispatcher \in {"Reordered", "Done"} =>
            \A i \in Indices : tasks[i].state \in {"Completed", "Failed"})
    /\ [][\A i \in Indices :
            \/ tasks'[i].state = tasks[i].state
            \/ <<tasks[i].state, tasks'[i].state>> \in TaskMoves]_vars
    /\ [][\/ dispatcher' = dispatcher
          \/ <<dispatcher, dispatcher'>> \in DispatcherMoves]_vars

C14_Witness ==
    /\ dispatcher = "Done"
    /\ \E i \in Indices : tasks[i].state = "Completed"
    /\ \E i \in Indices : tasks[i].state = "Failed"

OwnWrite(i) ==
    <<[val |-> Composite(tasks[i].cn[1], tasks[i].cn[2]), exp |-> now + TTL]>>

\* C16: a task's cache write replaces whatever the key held, so the key holds
\* what the last writer stored; between writes the value under a key stays
\* until it expires.  (That two tasks of one key both miss and both call the
\* service is the reachable state C16_Witness.)
C16_LastWriterWins ==
    [][request' = request =>
         /\ \A i \in Indices :
                (tasks[i].pc = "setex" /\ tasks'[i].pc = "done")
                => store'[Key(i)] = OwnWrite(i)
         /\ \A k \in Keys :
                \/ store'[k] = store[k]
                \/ store'[k] = <<>>
                \/ \E i \in Indices : /\ Key(i) = k
                                      /\ tasks[i].pc = "setex"
                                      /\ tasks'[i].pc = "done"]_vars

C16_Witness ==
    \E i, j \in Indices :
        /\ i # j
        /\ Key(i) = Key(j)
        /\ tasks[i].cached = None /\ tasks[j].cached = None
        /\ tasks[i].svc = "ok" /\ tasks[j].svc = "ok"
        /\ tasks[i].state = "Completed" /\ tasks[j].state = "Completed"
        /\ tasks[i].cn # tasks[j].cn
        /\ store[Key(j)] # <<>>
        /\ store[Key(j)][1].val = Composite(tasks[j].cn[1], tasks[j].cn[2])

\* C17: the results collected have distinct indices, each a position of the
\* feed; the result of index i has the link of entry i and its id, or its
\* link where it has no id; its title and content come from an answer given
\* for entry i or from the value read under entry i's cache key.
C17_ResultsBelongToEntries ==
    /\ \A a, b \in 1..Len(processed_results) :
           a # b => processed_results[a].index # processed_results[b].index
    /\ \A n \in 1..Len(processed_results) :
           LET r == processed_results[n]
           IN  /\ r.index \in Indices
               /\ r.link = EntryLink(Entry(r.index))
               /\ r.id = IF Entry(r.index).id = Missing THEN r.link
                         ELSE Entry(r.index).id
               /\ tasks[r.index].svc = "ok" =>
                      \E resp \in Responses :
                          <<r.cn_title, r.cn_content>> =
                              CnPair(Title(r.index), Content(r.index), resp)
               /\ tasks[r.index].svc # "ok" =>
                      /\ tasks[r.index].svc = "none"
                      /\ TwoParts(tasks[r.index].cached)
                      /\ <<r.cn_title, r.cn_content>> =
                             Split(tasks[r.index].cached[1], Separator)

C17_Witness ==
    /\ dispatcher = "Done"
    /\ Len(processed_results) = 2
    /\ \E n \in 1..Len(processed_results) :
           /\ Entry(processed_results[n].index).id = Missing
           /\ processed_results[n].id = processed_results[n].link

\* C18: outside the passing of time, a key's content changes only in the
\* step in which a task whose call succeeded after a miss stores under its
\* own key; the step of a cache hit leaves the whole cache as it was.
C18_WritesOnlyOwnKeyAfterSuccess ==
    [][(request' = request /\ now' = now) =>
         /\ \A k \in Keys :
                store'[k] # store[k] =>
                    \E i \in Indices : /\ Key(i) = k
                                       /\ tasks[i].pc = "setex"
                                       /\ tasks[i].svc = "ok"
                                       /\ ~TwoParts(tasks[i].cached)
                                       /\ tasks'[i].pc = "done"
         /\ \A i \in Indices :
                (tasks[i].pc = "get" /\ tasks'[i].pc = "done") => store' = store]_vars

C18_Witness ==
    \E i, j \in Indices :
        /\ TwoParts(tasks[i].cached)
        /\ tasks[i].state = "Completed"
        /\ store[Key(i)] # <<>>
        /\ store[Key(i)][1].exp = PreloadExpiry
        /\ tasks[j].svc = "ok"
        /\ tasks[j].state = "Completed"
        /\ Key(j) # Key(i)
        /\ store[Key(j)] # <<>>

\* C19: once another entry of the same title and the same first
\* FingerprintLen characters of content has had a successful call stored, and
\* before that expires, a lookup of this entry is served from the cache
\* without a call to the service.
C19_SharedKeyServed ==
    [][request' = request =>
         \A i \in Indices : \A n \in EntryNames :
             (/\ n # feed[i + 1]
              /\ EntryTitle(EntryPool[n]) = Title(i)
              /\ Prefix(RawContent(EntryPool[n]), FingerprintLen)
                     = Prefix(Content(i), FingerprintLen)
              /\ RawContent(EntryPool[n]) # Content(i)
              /\ tasks[i].pc = "get"
              /\ tasks'[i].pc # "get"
              /\ succeeded[n].req > 0
              /\ now < succeeded[n].at + TTL)
             => (tasks'[i].svc = "none" /\ tasks'[i].state = "Completed")]_vars

====
